---- MODULE Spec2Model ----
(***************************************************************************)
(* Model of the transaction ledger of src/main.py (class FinancialTracker):*)
(* the in-memory collections self.expenses and self.categories, the two    *)
(* persisted files, the Treeview that the handlers read the selected id    *)
(* from, and the handlers add_transaction, save_edit, delete_expense,      *)
(* filter_expenses, add_category and remove_category.                      *)
(*                                                                         *)
(* Text (entry contents, categories, dates) is a sequence of character     *)
(* codes, so that str.lower, str.capitalize, str.strip, float(),           *)
(* datetime.strptime and the string comparison used by list.sort are       *)
(* computed as Python computes them.                                       *)
(***************************************************************************)
EXTENDS Integers, Sequences, FiniteSets, TLC

-----------------------------------------------------------------------------
(* Bounds of the model.                                                    *)

\* uuid4() is called at most MaxUuid times in one run
MaxUuid == 2
\* at most MaxFileLen records in the transaction file found at start
MaxFileLen == 2

-----------------------------------------------------------------------------
(* Text literals, as character codes.                                      *)

sEmpty == << >>
sFood == <<70, 111, 111, 100>>                                   \* "Food"
sTransport == <<84, 114, 97, 110, 115, 112, 111, 114, 116>>      \* "Transport"
sEntertainment == <<69, 110, 116, 101, 114, 116, 97, 105, 110, 109, 101, 110, 116>>
sShopping == <<83, 104, 111, 112, 112, 105, 110, 103>>           \* "Shopping"
sBills == <<66, 105, 108, 108, 115>>                             \* "Bills"
sHealthcare == <<72, 101, 97, 108, 116, 104, 99, 97, 114, 101>>  \* "Healthcare"
sOther == <<79, 116, 104, 101, 114>>                             \* "Other"
sFOOD == <<70, 79, 79, 68>>                                      \* "FOOD"
sfood == <<102, 111, 111, 100>>                                  \* "food"
sgym == <<103, 121, 109>>                                        \* "gym"
sGym == <<71, 121, 109>>                                         \* "Gym"
sGymPadded == <<32, 71, 89, 77, 32>>                             \* " GYM "
sAllCategories == <<65, 108, 108, 32, 67, 97, 116, 101, 103, 111, 114, 105, 101, 115>>
sLunch == <<76, 117, 110, 99, 104>>                              \* "Lunch"
sPayRise == <<112, 97, 121, 32, 114, 105, 115, 101>>               \* "pay rise"
sAbc == <<97, 98, 99>>                                           \* "abc"
sZero == <<48>>                                                  \* "0"
sMinus5 == <<45, 53>>                                            \* "-5"
sTen == <<49, 48>>                                               \* "10"
sForty == <<52, 48>>                                             \* "40"
sNan == <<110, 97, 110>>                                         \* "nan"
sDateSep1 == <<50, 48, 50, 52, 45, 57, 45, 49>>                  \* "2024-9-1"
sDateOct1 == <<50, 48, 50, 52, 45, 49, 48, 45, 48, 49>>          \* "2024-10-01"
sDateSlash == <<49, 51, 47, 48, 49, 47, 50, 48, 50, 52>>         \* "13/01/2024"
sDateFeb30 == <<50, 48, 50, 52, 45, 48, 50, 45, 51, 48>>         \* "2024-02-30"

\* DEFAULT_CATEGORIES, in the order of the source
DEFAULT_CATEGORIES ==
    <<sFood, sTransport, sEntertainment, sShopping, sBills, sHealthcare, sOther>>

-----------------------------------------------------------------------------
(* Python's string operations.                                             *)

IsUpper(c) == c \in 65..90
IsLower(c) == c \in 97..122
IsDigit(c) == c \in 48..57

\* str.lower()
Lower(s) == [i \in 1..Len(s) |-> IF IsUpper(s[i]) THEN s[i] + 32 ELSE s[i]]

\* str.capitalize(): first character upper-cased, the rest lower-cased
Capitalize(s) ==
    [i \in 1..Len(s) |->
        IF i = 1 THEN (IF IsLower(s[i]) THEN s[i] - 32 ELSE s[i])
        ELSE (IF IsUpper(s[i]) THEN s[i] + 32 ELSE s[i])]

\* str.strip(): leading and trailing blanks removed
RECURSIVE Strip(_)
Strip(s) ==
    IF s = << >> THEN s
    ELSE IF s[1] = 32 THEN Strip(Tail(s))
    ELSE IF s[Len(s)] = 32 THEN Strip(SubSeq(s, 1, Len(s) - 1))
    ELSE s

\* a < b for str: the comparison list.sort applies to its keys
RECURSIVE StrLess(_, _)
StrLess(a, b) ==
    IF b = << >> THEN FALSE
    ELSE IF a = << >> THEN TRUE
    ELSE IF a[1] # b[1] THEN a[1] < b[1]
    ELSE StrLess(Tail(a), Tail(b))

-----------------------------------------------------------------------------
(* float(text).  A float is [nan, v]: v is the value when nan is FALSE.    *)
(* The grammar covers what the entry texts of this model use: an optional  *)
(* sign followed by digits, and "nan"; any other text raises ValueError.   *)

NaN == [nan |-> TRUE, v |-> 0]
Num(n) == [nan |-> FALSE, v |-> n]

RECURSIVE DigitsValue(_)
DigitsValue(s) ==
    IF s = << >> THEN 0
    ELSE 10 * DigitsValue(SubSeq(s, 1, Len(s) - 1)) + (s[Len(s)] - 48)

AllDigits(s) == s # << >> /\ \A i \in 1..Len(s) : IsDigit(s[i])

\* [ok |-> FALSE] stands for the ValueError
Float(text) ==
    LET t == Strip(text)
        neg == t # << >> /\ t[1] = 45
        body == IF t # << >> /\ t[1] \in {43, 45} THEN Tail(t) ELSE t
    IN  IF Lower(body) = sNan THEN [ok |-> TRUE, val |-> NaN]
        ELSE IF AllDigits(body)
             THEN [ok |-> TRUE,
                   val |-> Num(IF neg THEN 0 - DigitsValue(body) ELSE DigitsValue(body))]
        ELSE [ok |-> FALSE, val |-> NaN]

\* Python's comparisons with a float: every comparison with nan is False
FloatLeqZero(x) == ~x.nan /\ x.v <= 0
FloatGtZero(x) == ~x.nan /\ x.v > 0
FloatAdd(x, y) == IF x.nan \/ y.nan THEN NaN ELSE Num(x.v + y.v)
FloatSub(x, y) == IF x.nan \/ y.nan THEN NaN ELSE Num(x.v - y.v)
\* x > y
FloatGt(x, y) == ~x.nan /\ ~y.nan /\ x.v > y.v

-----------------------------------------------------------------------------
(* datetime.strptime(text, "%Y-%m-%d").                                    *)
(* The format compiles to the regular expression                           *)
(*   (\d\d\d\d)-(1[0-2]|0[1-9]|[1-9])-(3[01]|[12]\d|0[1-9]|[1-9]| [1-9])   *)
(* which must match at the start and leave nothing unconverted; the        *)
(* parsed year, month and day must then form a date.                       *)

IsLeap(y) == (y % 4 = 0 /\ y % 100 # 0) \/ y % 400 = 0

DaysInMonth(y, m) ==
    IF m = 2 THEN (IF IsLeap(y) THEN 29 ELSE 28)
    ELSE IF m \in {4, 6, 9, 11} THEN 30 ELSE 31

\* number of characters the month group takes at position 6, 0 if none;
\* the group must be followed by "-"
MonthLen(s) ==
    LET two == Len(s) >= 8
               /\ ((s[6] = 49 /\ s[7] \in 48..50) \/ (s[6] = 48 /\ s[7] \in 49..57))
               /\ s[8] = 45
        one == Len(s) >= 7 /\ s[6] \in 49..57 /\ s[7] = 45
    IN  IF two THEN 2 ELSE IF one THEN 1 ELSE 0

\* number of characters the day group takes at position p, 0 if none
DayLen(s, p) ==
    LET has2 == Len(s) >= p + 1
        two == has2
               /\ ((s[p] = 51 /\ s[p + 1] \in 48..49)
                   \/ (s[p] \in 49..50 /\ IsDigit(s[p + 1]))
                   \/ (s[p] = 48 /\ s[p + 1] \in 49..57))
        one == Len(s) >= p /\ s[p] \in 49..57
        blank == has2 /\ s[p] = 32 /\ s[p + 1] \in 49..57
    IN  IF two THEN 2 ELSE IF one THEN 1 ELSE IF blank THEN 2 ELSE 0

\* [ok |-> FALSE] stands for the ValueError
Strptime(s) ==
    LET bad == [ok |-> FALSE, y |-> 0, m |-> 0, d |-> 0]
        head == Len(s) >= 5 /\ (\A i \in 1..4 : IsDigit(s[i])) /\ s[5] = 45
        ml == MonthLen(s)
        p == 6 + ml + 1
        dl == DayLen(s, p)
    IN  IF ~head \/ ml = 0 THEN bad
        ELSE IF dl = 0 \/ Len(s) # p + dl - 1 THEN bad
        ELSE LET y == DigitsValue(SubSeq(s, 1, 4))
                 m == DigitsValue(SubSeq(s, 6, 5 + ml))
                 dtxt == SubSeq(s, p, p + dl - 1)
                 d == DigitsValue(IF dtxt[1] = 32 THEN Tail(dtxt) ELSE dtxt)
             IN  IF y < 1 \/ d > DaysInMonth(y, m) THEN bad
                 ELSE [ok |-> TRUE, y |-> y, m |-> m, d |-> d]

-----------------------------------------------------------------------------
(* Transaction records.  A record read from an older file may lack the     *)
(* keys 'id' and 'type': NoId and NoType stand for the missing key.  extra *)
(* is a key the program does not know ("" when the record has none).       *)

NoId == 0
NoType == "absent"

Rec(id, type, amount, category, description, date, extra) ==
    [id |-> id, type |-> type, amount |-> amount, category |-> category,
     description |-> description, date |-> date, extra |-> extra]

\* str(uuid.uuid4()): the n-th identifier drawn; never one drawn before and
\* never one found in a file
Uuid4(n) == 100 + n

Range(f) == {f[i] : i \in DOMAIN f}
Ids(list) == {list[i].id : i \in DOMAIN list}

\* list.sort(key=lambda x: x['date'], reverse=True): by the date text,
\* descending; stable, so records with equal dates keep their order
RECURSIVE InsertByDateDesc(_, _)
InsertByDateDesc(sorted, x) ==
    IF sorted = << >> THEN <<x>>
    ELSE IF StrLess(sorted[1].date, x.date) THEN <<x>> \o sorted
    ELSE <<sorted[1]>> \o InsertByDateDesc(Tail(sorted), x)

RECURSIVE SortFrom(_, _)
SortFrom(sorted, rest) ==
    IF rest = << >> THEN sorted
    ELSE SortFrom(InsertByDateDesc(sorted, rest[1]), Tail(rest))

SortByDateDesc(list) == SortFrom(<< >>, list)

-----------------------------------------------------------------------------
(* load_expenses: the migration loop.  n counts the uuid4() calls made so  *)
(* far; the result is the migrated list, the new count and needs_save.     *)


\* as MigrateOne, with one identifier drawn for the whole file
MigrateOne_OneUuid(exp, n) ==
    LET noId == exp.id = NoId
        noType == exp.type = NoType
        withId == IF noId THEN [exp EXCEPT !.id = Uuid4(1)] ELSE exp
        withType == IF noType THEN [withId EXCEPT !.type = "Expense"] ELSE withId
    IN  [rec |-> withType, n |-> IF noId THEN n + 1 ELSE n, changed |-> noId \/ noType]

MigrateOne(exp, n) ==
    LET noId == exp.id = NoId
        noType == exp.type = NoType
        withId == IF noId THEN [exp EXCEPT !.id = Uuid4(n + 1)] ELSE exp
        withType == IF noType THEN [withId EXCEPT !.type = "Expense"] ELSE withId
    IN  [rec |-> withType, n |-> IF noId THEN n + 1 ELSE n, changed |-> noId \/ noType]

RECURSIVE MigrateFrom(_, _, _, _)
MigrateFrom(done, rest, n, needs_save) ==
    IF rest = << >> THEN [data |-> done, n |-> n, needs_save |-> needs_save]
    ELSE LET r == MigrateOne(rest[1], n)
         IN  MigrateFrom(Append(done, r.rec), Tail(rest), r.n, needs_save \/ r.changed)

\* as Migrate, needs_save left as it was set before the loop
Migrate_NeverSaves(data, n) ==
    [MigrateFrom(<< >>, data, n, FALSE) EXCEPT !.needs_save = FALSE]

Migrate(data, n) == MigrateFrom(<< >>, data, n, FALSE)

-----------------------------------------------------------------------------
(* update_summary                                                          *)

RECURSIVE SumAmounts(_, _)
SumAmounts(list, type) ==
    IF list = << >> THEN Num(0)
    ELSE LET rest == SumAmounts(SubSeq(list, 1, Len(list) - 1), type)
             last == list[Len(list)]
         IN  IF last.type = type THEN FloatAdd(rest, last.amount) ELSE rest

\* expense_categories: (category, amount) items in order of first occurrence
RECURSIVE AddToCategory(_, _, _)
AddToCategory(items, cat, amount) ==
    IF items = << >> THEN <<[cat |-> cat, amount |-> FloatAdd(Num(0), amount)]>>
    ELSE IF items[1].cat = cat
         THEN <<[items[1] EXCEPT !.amount = FloatAdd(@, amount)]>> \o Tail(items)
    ELSE <<items[1]>> \o AddToCategory(Tail(items), cat, amount)

RECURSIVE ExpenseCategories(_, _)
ExpenseCategories(items, list) ==
    IF list = << >> THEN items
    ELSE IF list[1].type = "Expense"
         THEN ExpenseCategories(AddToCategory(items, list[1].category, list[1].amount),
                                Tail(list))
    ELSE ExpenseCategories(items, Tail(list))

\* sorted(items, key=lambda x: x[1], reverse=True): stable, by amount descending
RECURSIVE InsertByAmountDesc(_, _)
InsertByAmountDesc(sorted, x) ==
    IF sorted = << >> THEN <<x>>
    ELSE IF FloatGt(x.amount, sorted[1].amount) THEN <<x>> \o sorted
    ELSE <<sorted[1]>> \o InsertByAmountDesc(Tail(sorted), x)

RECURSIVE SortItemsFrom(_, _)
SortItemsFrom(sorted, rest) ==
    IF rest = << >> THEN sorted
    ELSE SortItemsFrom(InsertByAmountDesc(sorted, rest[1]), Tail(rest))

\* the statistics shown: the three stat boxes and the breakdown lines; the
\* percentage of a line is amount / total_expense * 100, kept as the exact
\* fraction pctNum / pctDen
UpdateSummary(list) ==
    LET total_income == SumAmounts(list, "Income")
        total_expense == SumAmounts(list, "Expense")
        items == SortItemsFrom(<< >>, ExpenseCategories(<< >>, list))
    IN  [totalIncome |-> total_income,
         totalExpense |-> total_expense,
         netBalance |-> FloatSub(total_income, total_expense),
         expenseByCategory |->
            IF FloatGtZero(total_expense)
            THEN [i \in 1..Len(items) |->
                    [cat |-> items[i].cat, amount |-> items[i].amount,
                     pctNum |-> items[i].amount.v * 100, pctDen |-> total_expense.v]]
            ELSE << >>]

-----------------------------------------------------------------------------
(* What the user can enter or pick.  A form is the content of the entry    *)
(* fields when Add Transaction or Save Changes is pressed.                 *)

Forms(types, amounts, cats, descriptions, dates) ==
    [type : types, amount : amounts, category : cats,
     description : descriptions, date : dates]

Form(type, amount, category, description, date) ==
    [type |-> type, amount |-> amount, category |-> category,
     description |-> description, date |-> date]

TypeChoices == {"Expense", "Income"}
FilterTypeChoices == {"All Types", "Expense", "Income"}
FilterCategoryChoices == {sAllCategories, sFood, sGym}
NewCategoryTexts == {sEmpty, sGymPadded, sFOOD, sfood}
\* the listbox rows the user may pick for removal
RemoveChoices == {sFood, sGym}

\* forms the application is to refuse: for their amount, for an empty
\* category or description, for their date
RefusedAmountForms ==
    Forms({"Expense"}, {sAbc, sZero, sMinus5}, {sFOOD}, {sLunch}, {sDateOct1})
    \cup {Form("Income", sZero, sGym, sLunch, sDateSlash)}

RefusedTextForms ==
    { Form("Expense", sTen, sEmpty, sLunch, sDateOct1),
      Form("Expense", sTen, sFOOD, sEmpty, sDateOct1),
      Form("Income", sTen, sEmpty, sEmpty, sDateSlash) }

RefusedDateForms ==
    Forms({"Expense"}, {sTen}, {sFOOD}, {sLunch}, {sDateSlash, sDateFeb30})

\* forms the application accepts: every field takes two values or more
AcceptedForms ==
    { Form("Expense", sTen, sFOOD, sLunch, sDateSep1),
      Form("Income", sForty, sGym, sPayRise, sDateOct1),
      Form("Expense", sNan, sGym, sLunch, sDateOct1),
      Form("Expense", sForty, sFOOD, sPayRise, sDateOct1) }

LedgerForms ==
    AcceptedForms \cup RefusedAmountForms \cup RefusedTextForms \cup RefusedDateForms

EditForms == AcceptedForms \cup RefusedAmountForms \cup RefusedDateForms

ViewForms == AcceptedForms

CategoryForms ==
    Forms({"Expense"}, {sTen}, {sFOOD, sGym, sEmpty}, {sLunch}, {sDateOct1})

\* Records an earlier run of the program, or of its older version without
\* 'id' and 'type', has written to the transaction file.
FileRecords ==
    { Rec(NoId, NoType, Num(10), sfood, sLunch, sDateSep1, "memo"),
      Rec(NoId, "Income", Num(40), sgym, sLunch, sDateOct1, ""),
      Rec(1, NoType, Num(40), sfood, sLunch, sDateOct1, ""),
      Rec(2, "Expense", Num(10), sgym, sLunch, sDateSep1, "") }

SeqsUpTo(S, n) == UNION {[1..k -> S] : k \in 0..n}

\* the program writes no two records with the same id
FileLists ==
    {l \in SeqsUpTo(FileRecords, MaxFileLen) :
        \A i, j \in DOMAIN l : (i # j /\ l[i].id # NoId) => l[i].id # l[j].id}

AbsentFile == [kind |-> "absent", data |-> << >>]
CorruptFile == [kind |-> "corrupt", data |-> << >>]
\* valid JSON that is no list: a number
ScalarFile == [kind |-> "scalar", data |-> << >>]
ListFile(l) == [kind |-> "list", data |-> l]

ExpFiles == {AbsentFile, CorruptFile} \cup {ListFile(l) : l \in FileLists}

\* the category file: absent, or a list the program has saved
CatFiles == {AbsentFile, ListFile(<<sFood, sGym>>)}

\* as save_expenses, the last record still to be written
save_expenses_WithoutLast(list) ==
    ListFile(IF list = << >> THEN list ELSE SubSeq(list, 1, Len(list) - 1))

\* json.dump(self.expenses, f): the file after save_expenses()
save_expenses(list) == ListFile(list)

\* json.dump(self.categories, f): the file after save_categories()
save_categories(list) == ListFile(list)

-----------------------------------------------------------------------------
(* State.                                                                  *)

VARIABLES
    pc,          \* "boot": not constructed; "loaded": both loads done; "running"
    expFile,     \* EXPENSES_FILE
    catFile,     \* CATEGORIES_FILE
    expenses,    \* self.expenses
    categories,  \* self.categories
    tree,        \* ids of the rows of self.tree, top to bottom
    filterCat,   \* self.filter_category_var
    filterType,  \* self.filter_type_var
    summary,     \* the statistics update_summary last displayed
    uuids,       \* number of uuid4() calls made
    event,       \* the handler that ran last, with the message box it showed
    blocked      \* the categories remove_category has refused as in use

vars == <<pc, expFile, catFile, expenses, categories, tree, filterCat, filterType,
          summary, uuids, event, blocked>>

\* id: the transaction the handler was about; text: the category
Event(handler, shown, id) ==
    [handler |-> handler, shown |-> shown, id |-> id, text |-> << >>]
CategoryEvent(handler, shown, text) ==
    [handler |-> handler, shown |-> shown, id |-> NoId, text |-> text]

IdsOf(list) == [i \in 1..Len(list) |-> list[i].id]

InitWith(expFiles, catFiles) ==
    /\ pc = "boot"
    /\ expFile \in expFiles
    /\ catFile \in catFiles
    /\ expenses = << >>
    /\ categories = << >>
    /\ tree = << >>
    /\ filterCat = sAllCategories
    /\ filterType = "All Types"
    /\ summary = UpdateSummary(<< >>)
    /\ uuids = 0
    /\ event = Event("none", "none", NoId)
    /\ blocked = {}

-----------------------------------------------------------------------------
(* Construction: load_expenses and load_categories, then the first         *)
(* refresh_expense_list() and update_summary().                            *)

\* load_expenses: [data, n, needs_save]
LoadExpenses(file, n) ==
    IF file.kind = "list" THEN Migrate(file.data, n)
    ELSE [data |-> << >>, n |-> n, needs_save |-> FALSE]

LoadCategories(file) ==
    IF file.kind = "absent" THEN DEFAULT_CATEGORIES ELSE file.data

\* load_expenses ends in an uncaught exception: `for exp in data` over a
\* number raises TypeError
LoadExpensesRaises(file) == file.kind = "scalar"

\* __init__ ends in an uncaught exception over the category file:
\* load_categories does not catch json.load's JSONDecodeError, and
\* create_widgets iterates self.categories, a TypeError over a number
LoadCategoriesRaises(file) == file.kind \in {"corrupt", "scalar"}

\* __init__ up to create_widgets.  An uncaught exception ends the process
\* (pc "crashed") with what was written before it.
Load ==
    /\ pc = "boot"
    /\ IF LoadExpensesRaises(expFile)
       THEN /\ pc' = "crashed"
            /\ event' = Event("load", "Traceback", NoId)
            /\ UNCHANGED <<expFile, expenses, categories, uuids>>
       ELSE /\ LET r == LoadExpenses(expFile, uuids)
               IN  /\ expenses' = r.data
                   /\ uuids' = r.n
                   /\ expFile' = IF r.needs_save THEN save_expenses(r.data)
                                 ELSE expFile
            /\ IF LoadCategoriesRaises(catFile)
               THEN /\ pc' = "crashed"
                    /\ event' = Event("load", "Traceback", NoId)
                    /\ UNCHANGED categories
               ELSE /\ categories' = LoadCategories(catFile)
                    /\ pc' = "loaded"
                    /\ event' = Event("load", "none", NoId)
    /\ UNCHANGED <<catFile, tree, filterCat, filterType, summary, blocked>>


\* as Refreshed, by list.sort(key) followed by list.reverse(): records with
\* equal dates change places
Refreshed_Reversing(list) ==
    LET s == SortByDateDesc(list)
        turned == [i \in 1..Len(s) |-> s[Len(s) + 1 - i]]
        back == SortByDateDesc(turned)
    IN  back

\* refresh_expense_list() without a list: sorts self.expenses itself
Refreshed(list) == SortByDateDesc(list)

FirstRefresh ==
    /\ pc = "loaded"
    /\ expenses' = Refreshed(expenses)
    /\ tree' = IdsOf(expenses')
    /\ summary' = UpdateSummary(expenses')
    /\ pc' = "running"
    /\ event' = Event("init", "none", NoId)
    /\ UNCHANGED <<expFile, catFile, categories, filterCat, filterType, uuids, blocked>>

-----------------------------------------------------------------------------
(* add_transaction                                                         *)


\* as NewTransaction, the category stored as it was typed
NewTransaction_KeepsCase(unique_id, trans_type, amount, category, description, date_str) ==
    Rec(unique_id, trans_type, amount, category, description, date_str, "")

NewTransaction(unique_id, trans_type, amount, category, description, date_str) ==
    Rec(unique_id, trans_type, amount, Lower(category), description, date_str, "")

\* the warning add_transaction ends with, "" when the input passes
AddRejection(amount_text, category, description, date_str) ==
    LET f == Float(amount_text)
    IN  IF ~f.ok THEN "Invalid Input"
        ELSE IF FloatLeqZero(f.val) THEN "Invalid Amount"
        ELSE IF category = << >> \/ description = << >> THEN "Missing Info"
        ELSE IF ~Strptime(date_str).ok THEN "Invalid Date"
        ELSE ""

\* a handler that only shows a message box
Unchanged ==
    UNCHANGED <<pc, expFile, catFile, expenses, categories, tree, filterCat,
                filterType, summary, uuids>>

OnlyShows(handler, shown, id) ==
    /\ event' = Event(handler, shown, id)
    /\ Unchanged
    /\ UNCHANGED blocked

add_transaction(trans_type, amount_text, category, description, date_str) ==
    /\ pc = "running"
    /\ LET why == AddRejection(amount_text, category, description, date_str)
       IN  IF why # "" THEN OnlyShows("add_transaction", why, NoId)
           ELSE /\ uuids < MaxUuid
                /\ LET transaction ==
                           NewTransaction(Uuid4(uuids + 1), trans_type,
                                          Float(amount_text).val, category,
                                          description, date_str)
                       appended == Append(expenses, transaction)
                   IN  /\ expFile' = save_expenses(appended)
                       /\ expenses' = Refreshed(appended)
                       /\ event' = Event("add_transaction", "Success", transaction.id)
                /\ uuids' = uuids + 1
                /\ tree' = IdsOf(expenses')
                /\ summary' = UpdateSummary(expenses')
                /\ UNCHANGED <<pc, catFile, categories, filterCat, filterType, blocked>>

-----------------------------------------------------------------------------
(* open_edit_window and save_edit.  The window is modal, so the record     *)
(* looked up when it opens is the one save_edit writes to.  row is the     *)
(* record whose row the user goes for: a row the tree does not show        *)
(* cannot be selected, and the handler then finds no selection.            *)

Selected(row) == IF row \in Range(tree) THEN row ELSE NoId

\* index of the first record with this id, 0 if there is none
RECURSIVE FirstWithId(_, _, _)
FirstWithId(list, trans_id, i) ==
    IF i > Len(list) THEN 0
    ELSE IF list[i].id = trans_id THEN i
    ELSE FirstWithId(list, trans_id, i + 1)


\* as EditedTransaction, without the assignment of the type
EditedTransaction_KeepsType(original, new_amount, new_date, new_category, new_description, new_type) ==
    [original EXCEPT !.amount = new_amount, !.date = new_date,
                     !.category = Lower(new_category),
                     !.description = new_description]

EditedTransaction(original, new_amount, new_date, new_category, new_description, new_type) ==
    [original EXCEPT !.amount = new_amount, !.date = new_date,
                     !.category = Lower(new_category),
                     !.description = new_description, !.type = new_type]

\* the warning save_edit ends with, "" when the input passes
EditRejection(amount_text, date_str) ==
    LET f == Float(amount_text)
    IN  IF ~f.ok THEN "Invalid Input"
        ELSE IF FloatLeqZero(f.val) THEN "Invalid Amount"
        ELSE IF ~Strptime(date_str).ok THEN "Invalid Date"
        ELSE ""

save_edit(row, new_type, amount_text, new_category, new_description, new_date) ==
    /\ pc = "running"
    /\ LET trans_id == Selected(row)
           i == FirstWithId(expenses, trans_id, 1)
           why == EditRejection(amount_text, new_date)
       IN  IF trans_id = NoId THEN OnlyShows("open_edit_window", "No Selection", row)
           ELSE IF i = 0 THEN OnlyShows("open_edit_window", "Error", row)
           ELSE IF why # "" THEN OnlyShows("save_edit", why, NoId)
           ELSE LET edited ==
                        [expenses EXCEPT ![i] =
                            EditedTransaction(expenses[i], Float(amount_text).val,
                                              new_date, new_category,
                                              new_description, new_type)]
                IN  /\ expFile' = save_expenses(edited)
                    /\ expenses' = Refreshed(edited)
                    /\ tree' = IdsOf(expenses')
                    /\ summary' = UpdateSummary(expenses')
                    /\ event' = Event("save_edit", "Success", trans_id)
                    /\ UNCHANGED <<pc, catFile, categories, filterCat, filterType,
                                   uuids, blocked>>

-----------------------------------------------------------------------------
(* delete_expense (the user answers yes to the confirmation)               *)


\* as DeleteById, comparing the position in the list with the selected row
DeleteById_ByPosition(list, trans_id) ==
    IF list = << >> THEN list ELSE Tail(list)

\* [exp for exp in self.expenses if exp['id'] != trans_id]
DeleteById(list, trans_id) ==
    LET keep(exp) == exp.id # trans_id IN SelectSeq(list, keep)

delete_expense(row) ==
    /\ pc = "running"
    /\ LET trans_id == Selected(row)
       IN  IF trans_id = NoId THEN OnlyShows("delete_expense", "No Selection", row)
           ELSE LET remaining == DeleteById(expenses, trans_id)
                IN  /\ expFile' = save_expenses(remaining)
                    /\ expenses' = Refreshed(remaining)
                    /\ tree' = IdsOf(expenses')
                    /\ summary' = UpdateSummary(expenses')
                    /\ event' = Event("delete_expense", "Deleted", trans_id)
                    /\ UNCHANGED <<pc, catFile, categories, filterCat, filterType, uuids,
                                   blocked>>

-----------------------------------------------------------------------------
(* filter_expenses: run when the user picks a row of either filter box     *)

FilterByCategory(list, category_filter) ==
    LET keep(exp) == exp.category = category_filter IN SelectSeq(list, keep)

FilterByType(list, type_filter) ==
    LET keep(exp) == exp.type = type_filter IN SelectSeq(list, keep)

\* the list filter_expenses hands to refresh_expense_list
FilteredList(list, category_var, type_var) ==
    LET category_filter == Lower(category_var)
        byCat == IF category_filter # Lower(sAllCategories)
                 THEN FilterByCategory(list, category_filter) ELSE list
    IN  IF type_var # "All Types" THEN FilterByType(byCat, type_var) ELSE byCat

\* whether that list is self.expenses itself, which refresh_expense_list
\* then sorts in place
IsSameList(category_var, type_var) ==
    Lower(category_var) = Lower(sAllCategories) /\ type_var = "All Types"

filter_expenses(category_var, type_var) ==
    /\ pc = "running"
    /\ filterCat' = category_var
    /\ filterType' = type_var
    /\ LET shown == Refreshed(FilteredList(expenses, category_var, type_var))
       IN  /\ tree' = IdsOf(shown)
           /\ expenses' = IF IsSameList(category_var, type_var) THEN shown ELSE expenses
    /\ event' = Event("filter_expenses", "none", NoId)
    /\ UNCHANGED <<pc, expFile, catFile, categories, summary, uuids, blocked>>

PickCategoryFilter(choice) ==
    /\ choice = sAllCategories \/ \E c \in Range(categories) : Capitalize(c) = choice
    /\ filter_expenses(choice, filterType)

PickTypeFilter(choice) == filter_expenses(filterCat, choice)

-----------------------------------------------------------------------------
(* The category manager: add_category and remove_category                  *)

\* list.sort() of strings
RECURSIVE InsertStr(_, _)
InsertStr(sorted, x) ==
    IF sorted = << >> THEN <<x>>
    ELSE IF StrLess(x, sorted[1]) THEN <<x>> \o sorted
    ELSE <<sorted[1]>> \o InsertStr(Tail(sorted), x)

RECURSIVE SortStrFrom(_, _)
SortStrFrom(sorted, rest) ==
    IF rest = << >> THEN sorted
    ELSE SortStrFrom(InsertStr(sorted, rest[1]), Tail(rest))

SortStr(list) == SortStrFrom(<< >>, list)


\* as CategoryIsNew, looking up the lower-cased name
CategoryIsNew_LowerCased(new_cat, cats) == new_cat \notin Range(cats)

\* new_cat.capitalize() not in self.categories
CategoryIsNew(new_cat, cats) == Capitalize(new_cat) \notin Range(cats)

add_category(text) ==
    /\ pc = "running"
    /\ LET new_cat == Lower(Strip(text))
       IN  IF new_cat # << >> /\ CategoryIsNew(new_cat, categories)
           THEN /\ categories' = SortStr(Append(categories, Capitalize(new_cat)))
                /\ catFile' = save_categories(categories')
                /\ event' = CategoryEvent("add_category", "Success", text)
                /\ UNCHANGED <<pc, expFile, expenses, tree, filterCat, filterType,
                               summary, uuids, blocked>>
           ELSE /\ event' = CategoryEvent("add_category",
                                          IF new_cat # << >> THEN "Exists" ELSE "none",
                                          text)
                /\ Unchanged
                /\ UNCHANGED blocked


\* as CategoryInUse, comparing with the name as displayed
CategoryInUse_AsDisplayed(list, cat_to_remove_display) ==
    \E i \in DOMAIN list : list[i].category = cat_to_remove_display

\* any(exp['category'] == cat_to_remove_lower for exp in self.expenses)
CategoryInUse(list, cat_to_remove_display) ==
    \E i \in DOMAIN list : list[i].category = Lower(cat_to_remove_display)

\* list.remove(x): without the first element equal to x
RECURSIVE ListRemove(_, _)
ListRemove(list, x) ==
    IF list = << >> THEN << >>
    ELSE IF list[1] = x THEN Tail(list)
    ELSE <<list[1]>> \o ListRemove(Tail(list), x)

\* index is the selected listbox row, 0 when none is selected; the listbox
\* shows cat.capitalize() for each category, in order
remove_category(index, confirmed) ==
    /\ pc = "running"
    /\ index \in 0..Len(categories)
    /\ IF index = 0 THEN OnlyShows("remove_category", "No Selection", NoId)
       ELSE LET cat_to_remove_display == Capitalize(categories[index])
            IN  IF CategoryInUse(expenses, cat_to_remove_display)
                THEN /\ event' = CategoryEvent("remove_category", "In Use",
                                               cat_to_remove_display)
                     /\ blocked' = blocked \cup {cat_to_remove_display}
                     /\ Unchanged
                ELSE IF ~confirmed \/ cat_to_remove_display \notin Range(categories)
                THEN /\ event' = CategoryEvent("remove_category", "none",
                                               cat_to_remove_display)
                     /\ Unchanged
                     /\ UNCHANGED blocked
                ELSE /\ categories' = ListRemove(categories, cat_to_remove_display)
                     /\ catFile' = save_categories(categories')
                     /\ event' = CategoryEvent("remove_category", "Removed",
                                               cat_to_remove_display)
                     /\ UNCHANGED <<pc, expFile, expenses, tree, filterCat,
                                    filterType, summary, uuids, blocked>>

-----------------------------------------------------------------------------
(* The program: construction, then one handler at a time.                  *)

\* the uuids drawn so far
Issued == {Uuid4(n) : n \in 1..uuids}

\* the rows the user can go for: those of records that exist or existed
Rows == Ids(expenses) \cup Issued

AddStep(forms) ==
    \E f \in forms :
        add_transaction(f.type, f.amount, f.category, f.description, f.date)

EditStep(forms) ==
    \E row \in Rows, f \in forms :
        save_edit(row, f.type, f.amount, f.category, f.description, f.date)

DeleteStep == \E row \in Rows : delete_expense(row)

FilterStep ==
    \/ \E choice \in FilterCategoryChoices : PickCategoryFilter(choice)
    \/ \E choice \in FilterTypeChoices : PickTypeFilter(choice)

AddCategoryStep == \E text \in NewCategoryTexts : add_category(text)

RemoveCategoryStep ==
    \E index \in 0..Len(categories), confirmed \in BOOLEAN :
        /\ index # 0 => Capitalize(categories[index]) \in RemoveChoices
        /\ remove_category(index, confirmed)

(* The ledger: adding, editing and deleting transactions.                  *)
LegacyFile == ListFile(<<Rec(NoId, NoType, Num(40), sgym, sLunch, sDateOct1, "memo")>>)

Init == InitWith({AbsentFile, LegacyFile}, {AbsentFile})

Next ==
    \/ Load
    \/ FirstRefresh
    \/ AddStep(LedgerForms)
    \/ EditStep(EditForms)
    \/ DeleteStep

Spec == Init /\ [][Next]_vars

(* The list view: filtering and ordering.                                  *)
NextView ==
    \/ Load
    \/ FirstRefresh
    \/ AddStep(ViewForms)
    \/ EditStep(ViewForms)
    \/ DeleteStep
    \/ FilterStep

SpecView == InitWith({AbsentFile}, {AbsentFile}) /\ [][NextView]_vars

(* The category manager, with the transactions that refer to categories.   *)
NextCat ==
    \/ Load
    \/ FirstRefresh
    \/ AddStep(CategoryForms)
    \/ EditStep(CategoryForms)
    \/ DeleteStep
    \/ AddCategoryStep
    \/ RemoveCategoryStep

SpecCat == InitWith({AbsentFile}, CatFiles) /\ [][NextCat]_vars

(* Construction from every transaction file.                               *)
NextLoad ==
    \/ Load
    \/ FirstRefresh

SpecLoad == InitWith(ExpFiles, CatFiles) /\ [][NextLoad]_vars

(* The two files: every handler that writes one, from every start.        *)
StoreForms ==
    { Form("Expense", sTen, sFOOD, sLunch, sDateOct1),
      Form("Income", sForty, sGym, sPayRise, sDateSep1) }

NextStore ==
    \/ Load
    \/ FirstRefresh
    \/ AddStep(StoreForms)
    \/ EditStep(StoreForms)
    \/ DeleteStep
    \/ AddCategoryStep
    \/ RemoveCategoryStep

SpecStore ==
    InitWith({AbsentFile, CorruptFile, LegacyFile}, {AbsentFile, CorruptFile})
    /\ [][NextStore]_vars

(* Construction from every content of the two files.                       *)
SpecStart ==
    InitWith(ExpFiles \cup {ScalarFile}, CatFiles \cup {CorruptFile, ScalarFile})
    /\ [][NextLoad]_vars

-----------------------------------------------------------------------------
(* Vocabulary of the properties.                                           *)

Count(list, r) == Cardinality({i \in DOMAIN list : list[i] = r})

\* the same records, each as many times, in whatever order
SameRecords(a, b) ==
    /\ Len(a) = Len(b)
    /\ \A r \in Range(a) \cup Range(b) : Count(a, r) = Count(b, r)

\* the list without its j-th record
Without(list, j) == SubSeq(list, 1, j - 1) \o SubSeq(list, j + 1, Len(list))

\* a decimal numeral: an optional sign and digits
IsNumeral(text) ==
    LET body == IF text # << >> /\ text[1] \in {43, 45} THEN Tail(text) ELSE text
    IN  AllDigits(body)

NumeralValue(text) ==
    IF text[1] = 45 THEN 0 - DigitsValue(Tail(text))
    ELSE IF text[1] = 43 THEN DigitsValue(Tail(text))
    ELSE DigitsValue(text)

\* the amount is not a number, or not a positive one
AmountInvalid(text) == ~IsNumeral(text) \/ NumeralValue(text) <= 0

\* YYYY-MM-DD: four, two and two digits, and a day that exists
IsIsoDate(text) ==
    /\ Len(text) = 10
    /\ \A i \in {1, 2, 3, 4, 6, 7, 9, 10} : IsDigit(text[i])
    /\ text[5] = 45 /\ text[8] = 45
    /\ LET y == DigitsValue(SubSeq(text, 1, 4))
           m == DigitsValue(SubSeq(text, 6, 7))
           d == DigitsValue(SubSeq(text, 9, 10))
       IN  y >= 1 /\ m \in 1..12 /\ d \in 1..DaysInMonth(y, m)

FieldMissing(f) == f.category = << >> \/ f.description = << >>

\* the failures a form calls for: InvalidAmount is shown as "Invalid Input"
\* or "Invalid Amount", MissingField as "Missing Info", InvalidDate as
\* "Invalid Date"
FailuresCalledFor(f) ==
    (IF AmountInvalid(f.amount) THEN {"Invalid Input", "Invalid Amount"} ELSE {})
    \cup (IF FieldMissing(f) THEN {"Missing Info"} ELSE {})
    \cup (IF ~IsIsoDate(f.date) THEN {"Invalid Date"} ELSE {})

AddedWith(f) == add_transaction(f.type, f.amount, f.category, f.description, f.date)
EditedWith(row, f) ==
    save_edit(row, f.type, f.amount, f.category, f.description, f.date)

-----------------------------------------------------------------------------
(* C1: add_transaction, given an amount that is not a number or is <= 0,   *)
(* an empty category or description, or a date that is not a real date     *)
(* written YYYY-MM-DD, reports the matching failure and leaves             *)
(* self.expenses and the transaction file as they were.                    *)
C1_InvalidAddRejected ==
    [][event'.handler = "add_transaction" =>
        \A f \in LedgerForms :
            (AddedWith(f) /\ FailuresCalledFor(f) # {}) =>
                /\ event'.shown \in FailuresCalledFor(f)
                /\ expenses' = expenses
                /\ expFile' = expFile]_vars

-----------------------------------------------------------------------------
(* C2: add_transaction succeeds on every valid form, and a successful      *)
(* add_transaction leaves self.expenses with exactly one more record: the  *)
(* records that were there are all still there, unchanged; the new one     *)
(* has the type, amount, description and date of the form, the form's      *)
(* category in lower case, and an id no record had before.                 *)
C2_AddAppendsOneRecord ==
    [][event'.handler = "add_transaction" =>
        \A f \in LedgerForms :
            AddedWith(f) =>
                /\ FailuresCalledFor(f) = {} => event'.shown = "Success"
                /\ event'.shown = "Success" =>
                    \E j \in DOMAIN expenses' :
                        /\ expenses'[j].type = f.type
                        /\ expenses'[j].amount = Float(f.amount).val
                        /\ expenses'[j].category = Lower(f.category)
                        /\ expenses'[j].description = f.description
                        /\ expenses'[j].date = f.date
                        /\ expenses'[j].id \notin Ids(expenses)
                        /\ Len(expenses') = Len(expenses) + 1
                        /\ SameRecords(Without(expenses', j), expenses)]_vars

\* an add has succeeded on a collection that already held a record
C2_Witness ==
    /\ event.handler = "add_transaction"
    /\ event.shown = "Success"
    /\ Len(expenses) >= 2

-----------------------------------------------------------------------------
(* C3: a successful save_edit keeps the id of the edited record and the    *)
(* number of records, sets the record's amount, date, category (in lower   *)
(* case), description and type to the values of the form, and leaves       *)
(* every other record as it was.                                           *)
C3_EditInPlace ==
    [][(event'.handler = "save_edit" /\ event'.shown = "Success") =>
        \A row \in {event'.id}, f \in EditForms :
            EditedWith(row, f) =>
                \E i \in DOMAIN expenses, j \in DOMAIN expenses' :
                    /\ expenses[i].id = row
                    /\ expenses'[j] =
                           [id |-> row, type |-> f.type, amount |-> Float(f.amount).val,
                            category |-> Lower(f.category),
                            description |-> f.description, date |-> f.date,
                            extra |-> expenses[i].extra]
                    /\ Len(expenses') = Len(expenses)
                    /\ SameRecords(Without(expenses', j), Without(expenses, i))]_vars

\* an edit has succeeded on a collection of two records or more
C3_Witness ==
    /\ event.handler = "save_edit"
    /\ event.shown = "Success"
    /\ Len(expenses) >= 2

-----------------------------------------------------------------------------
(* C4: delete_expense on the row of a record removes that record and no    *)
(* other; a second delete_expense for the same id finds no selection (the  *)
(* row is gone): it reports that, reports no success, and changes neither  *)
(* self.expenses nor the transaction file.                                 *)
C4_DeleteOnce ==
    [][event'.handler = "delete_expense" =>
        \A row \in {event'.id} :
            delete_expense(row) =>
                IF row \in Ids(expenses)
                THEN /\ event'.shown = "Deleted"
                     /\ Len(expenses') = Len(expenses) - 1
                     /\ row \notin Ids(expenses')
                     /\ \E i \in DOMAIN expenses :
                            /\ expenses[i].id = row
                            /\ SameRecords(expenses', Without(expenses, i))
                ELSE /\ event'.shown = "No Selection"
                     /\ expenses' = expenses
                     /\ expFile' = expFile]_vars

\* a delete was asked again for an id that delete_expense had removed,
\* while other records remain
C4_Witness ==
    /\ event.handler = "delete_expense"
    /\ event.shown = "No Selection"
    /\ event.id \in Issued
    /\ event.id \notin Ids(expenses)
    /\ Len(expenses) >= 1

-----------------------------------------------------------------------------
(* C5: while a transaction's category equals the category of the selected  *)
(* listbox row, letter case aside, remove_category reports "In Use" and    *)
(* leaves the categories as they are; when no transaction has it (any      *)
(* longer), the confirmed remove_category succeeds and the category is     *)
(* gone from self.categories.                                              *)
SameCategory(a, b) == Lower(a) = Lower(b)

C5_RemoveGuardedByUse ==
    [][event'.handler = "remove_category" =>
        \A index \in 1..Len(categories) :
            remove_category(index, TRUE) =>
                IF \E i \in DOMAIN expenses :
                       SameCategory(expenses[i].category, categories[index])
                THEN /\ event'.shown = "In Use"
                     /\ categories' = categories
                     /\ catFile' = catFile
                ELSE /\ event'.shown = "Removed"
                     /\ \A k \in DOMAIN categories' :
                            ~SameCategory(categories'[k], categories[index])
                     /\ Len(categories') = Len(categories) - 1
                     /\ expenses' = expenses]_vars

\* a category was removed that remove_category had refused to remove before
C5_Witness ==
    /\ event.handler = "remove_category"
    /\ event.shown = "Removed"
    /\ event.text \in blocked

-----------------------------------------------------------------------------
(* C6: add_category reports "Exists", and leaves the categories as they    *)
(* are, whenever self.categories holds an entry equal, letter case aside,  *)
(* to the trimmed name; and self.categories never holds two entries that   *)
(* are equal letter case aside.                                            *)
NoDuplicateCategories ==
    \A i, j \in DOMAIN categories :
        SameCategory(categories[i], categories[j]) => i = j

C6_AddRefusesDuplicate ==
    /\ []NoDuplicateCategories
    /\ [][event'.handler = "add_category" =>
            \A text \in NewCategoryTexts :
                (/\ add_category(text)
                 /\ \E k \in DOMAIN categories :
                        SameCategory(categories[k], Strip(text))) =>
                    /\ event'.shown = "Exists"
                    /\ categories' = categories
                    /\ catFile' = catFile]_vars

\* a name was refused that differs from the entry it duplicates
C6_Witness ==
    /\ event.handler = "add_category"
    /\ event.shown = "Exists"
    /\ event.text \notin Range(categories)
    /\ \E k \in DOMAIN categories : SameCategory(categories[k], Strip(event.text))

-----------------------------------------------------------------------------
(* C7: filter_expenses, whatever the two filters say, leaves self.expenses *)
(* with the same records in the same order.                                *)
C7_FilterKeepsCollection ==
    [][event'.handler = "filter_expenses" => expenses' = expenses]_vars

\* both filters were off, so that refresh_expense_list sorted self.expenses
\* itself, and two of its records have the same date
C7_Witness ==
    /\ event.handler = "filter_expenses"
    /\ IsSameList(filterCat, filterType)
    /\ \E i, j \in DOMAIN expenses : i # j /\ expenses[i].date = expenses[j].date

-----------------------------------------------------------------------------
(* C8: after filter_expenses with a category or a type filter on, the tree *)
(* shows exactly the records that match the filters, the later calendar    *)
(* date first.                                                             *)
Matches(exp, category_var, type_var) ==
    /\ SameCategory(category_var, sAllCategories) \/ exp.category = Lower(category_var)
    /\ type_var = "All Types" \/ exp.type = type_var

\* the day the date text names, as days are counted in a calendar
CalendarDay(text) ==
    LET dt == Strptime(text) IN (dt.y * 12 + dt.m) * 31 + dt.d

DateOfRow(id) == (CHOOSE exp \in Range(expenses) : exp.id = id).date

C8_FilterShowsMatchesByDate ==
    (/\ event.handler = "filter_expenses"
     /\ ~IsSameList(filterCat, filterType)) =>
        /\ Range(tree) = {exp.id : exp \in {e \in Range(expenses) :
                                               Matches(e, filterCat, filterType)}}
        /\ Len(tree) = Cardinality(Range(tree))
        /\ \A i, j \in DOMAIN tree :
               i < j => CalendarDay(DateOfRow(tree[i])) >= CalendarDay(DateOfRow(tree[j]))

-----------------------------------------------------------------------------
(* C9: the statistics shown are those of the whole of self.expenses: the   *)
(* income total, the expense total, their difference, and per category     *)
(* the sum of its expenses with its share of the expense total, the        *)
(* larger amount first; the breakdown is empty when the expense total is   *)
(* 0 and otherwise adds up to the expense total.                           *)
\* the sum of f over S, f a function to floats
RECURSIVE SumOver(_, _)
SumOver(S, f) ==
    IF S = {} THEN Num(0)
    ELSE LET x == CHOOSE y \in S : TRUE
         IN  FloatAdd(f[x], SumOver(S \ {x}, f))

AmountOf == [i \in DOMAIN expenses |-> expenses[i].amount]

TotalOf(type) == SumOver({i \in DOMAIN expenses : expenses[i].type = type}, AmountOf)

TotalOfCategory(cat) ==
    SumOver({i \in DOMAIN expenses :
                expenses[i].type = "Expense" /\ expenses[i].category = cat},
            AmountOf)

C9_SummaryOfWholeCollection ==
    pc = "running" =>
        LET lines == summary.expenseByCategory
            lineAmount == [i \in DOMAIN lines |-> lines[i].amount]
        IN  /\ summary.totalIncome = TotalOf("Income")
            /\ summary.totalExpense = TotalOf("Expense")
            /\ summary.netBalance = FloatSub(TotalOf("Income"), TotalOf("Expense"))
            /\ IF summary.totalExpense = Num(0) THEN lines = << >>
               ELSE /\ SumOver(DOMAIN lines, lineAmount) = summary.totalExpense
                    /\ {lines[i].cat : i \in DOMAIN lines} =
                           {expenses[i].category : i \in
                               {k \in DOMAIN expenses : expenses[k].type = "Expense"}}
                    /\ \A i \in DOMAIN lines :
                           /\ lines[i].amount = TotalOfCategory(lines[i].cat)
                           /\ lines[i].pctNum * summary.totalExpense.v =
                                  100 * lines[i].amount.v * lines[i].pctDen
                    /\ \A i, j \in DOMAIN lines :
                           i < j => lines[i].amount.v >= lines[j].amount.v
                                    /\ lines[i].cat # lines[j].cat

-----------------------------------------------------------------------------
(* C10: load_expenses gives each record without an id a new id that no     *)
(* other record of the collection has, gives each record without a type    *)
(* the type Expense, and changes nothing else: the other fields, the       *)
(* records that have both, the number of records and their order.          *)
C10_MigrationFillsIdAndType ==
    [][pc = "boot" =>
        LET old == IF expFile.kind = "list" THEN expFile.data ELSE << >>
            new == expenses'
        IN  /\ Len(new) = Len(old)
            /\ \A i \in DOMAIN old :
                   /\ old[i].id # NoId => new[i].id = old[i].id
                   /\ old[i].id = NoId =>
                          /\ new[i].id # NoId
                          /\ \A j \in DOMAIN new : j # i => new[j].id # new[i].id
                   /\ old[i].type # NoType => new[i].type = old[i].type
                   /\ old[i].type = NoType => new[i].type = "Expense"
                   /\ new[i] = [old[i] EXCEPT !.id = new[i].id, !.type = new[i].type]]_vars

\* loaded: two records that lacked an id, one of them with a key the
\* program does not know
C10_Witness ==
    /\ pc = "loaded"
    /\ uuids >= 2
    /\ \E i \in DOMAIN expenses : expenses[i].extra = "memo"
    /\ \E i \in DOMAIN expenses : expenses[i].type = "Income"

-----------------------------------------------------------------------------
(* C11: when load_expenses gives some record an id or a type, the file     *)
(* holds the migrated collection when load_expenses returns, so that       *)
(* load_expenses run again right then changes no record and writes         *)
(* nothing; when it changes no record, it leaves the file as it is.        *)
NeedsMigration(file) ==
    /\ file.kind = "list"
    /\ \E i \in DOMAIN file.data :
           file.data[i].id = NoId \/ file.data[i].type = NoType

C11_MigrationPersisted ==
    [][(pc = "boot" /\ ~LoadExpensesRaises(expFile)) =>
        LET again == LoadExpenses(expFile', uuids')
        IN  /\ NeedsMigration(expFile) => expFile' = ListFile(expenses')
            /\ ~NeedsMigration(expFile) => expFile' = expFile
            /\ ~NeedsMigration(expFile')
            /\ ~again.needs_save
            /\ again.data = expenses'
            /\ again.n = uuids']_vars

\* loaded from a file of two records, one of which lacked its id: the file
\* now holds the id that was drawn
C11_Witness ==
    /\ pc = "loaded"
    /\ expFile.kind = "list"
    /\ Len(expFile.data) = 2
    /\ \E i, j \in DOMAIN expFile.data :
           expFile.data[i].id = Uuid4(1) /\ expFile.data[j].id \in {1, 2}

-----------------------------------------------------------------------------
(* C12: when the transaction file or the category file holds text that is  *)
(* not JSON, or JSON that is not a list, construction still gets through:  *)
(* the collection of that file is empty and no error is shown.             *)
Unparsable(file) == file.kind \in {"corrupt", "scalar"}

C12_UnparsableFileLoadsEmpty ==
    [][(pc = "boot" /\ (Unparsable(expFile) \/ Unparsable(catFile))) =>
        /\ pc' = "loaded"
        /\ event'.shown = "none"
        /\ Unparsable(expFile) => expenses' = << >>
        /\ Unparsable(catFile) => categories' = << >>]_vars

-----------------------------------------------------------------------------
(* C13: save_edit, given an amount that is not a number or is <= 0, an     *)
(* empty category or description, or a date that is not a real date        *)
(* written YYYY-MM-DD, reports the matching failure and leaves             *)
(* self.expenses and the transaction file as they were; and no record of   *)
(* self.expenses ever has an empty category or an empty description.       *)
NoEmptyText ==
    \A i \in DOMAIN expenses :
        expenses[i].category # << >> /\ expenses[i].description # << >>

C13_InvalidEditRejected ==
    /\ []NoEmptyText
    /\ [][event'.handler = "save_edit" =>
            \A row \in Rows, f \in CategoryForms :
                (EditedWith(row, f) /\ FailuresCalledFor(f) # {}) =>
                    /\ event'.shown \in FailuresCalledFor(f)
                    /\ expenses' = expenses
                    /\ expFile' = expFile]_vars

-----------------------------------------------------------------------------
(* C14: the record a successful add_transaction or save_edit stores has a  *)
(* category that self.categories holds, letter case aside, when the        *)
(* handler runs.                                                           *)
C14_CategoryInSet ==
    [][(event'.handler \in {"add_transaction", "save_edit"}
        /\ event'.shown = "Success") =>
            \E i \in DOMAIN expenses' :
                /\ expenses'[i].id = event'.id
                /\ \E k \in DOMAIN categories :
                       SameCategory(categories[k], expenses'[i].category)]_vars

-----------------------------------------------------------------------------
(* C15: once add_transaction, save_edit or delete_expense has succeeded,   *)
(* the transaction file holds the records of self.expenses, each as many   *)
(* times, and load_expenses would return just those; once add_category or  *)
(* remove_category has succeeded, the category file holds the entries of   *)
(* self.categories and load_categories would return just those.            *)
C15_WriteThrough ==
    /\ (/\ event.handler \in {"add_transaction", "save_edit", "delete_expense"}
        /\ event.shown \in {"Success", "Deleted"}) =>
            /\ expFile.kind = "list"
            /\ SameRecords(expFile.data, expenses)
            /\ SameRecords(LoadExpenses(expFile, uuids).data, expenses)
    /\ (/\ event.handler \in {"add_category", "remove_category"}
        /\ event.shown \in {"Success", "Removed"}) =>
            /\ catFile.kind = "list"
            /\ SameRecords(catFile.data, categories)
            /\ SameRecords(LoadCategories(catFile), categories)

\* an add has succeeded, and the file holds the records in another order
\* than self.expenses, which the refresh has sorted
C15_Witness ==
    /\ event.handler = "add_transaction"
    /\ event.shown = "Success"
    /\ Len(expenses) >= 2
    /\ expFile.kind = "list"
    /\ IdsOf(expFile.data) # IdsOf(expenses)

-----------------------------------------------------------------------------
(* C16: once loaded, self.categories is in alphabetical order: no entry is *)
(* greater than the one after it.                                          *)
C16_CategoriesSorted ==
    pc \in {"loaded", "running"} =>
        \A i \in 1..(Len(categories) - 1) :
            ~StrLess(categories[i + 1], categories[i])

====
